---- MODULE Spec2Model ----
(***************************************************************************)
(* CSV ingestion of insurance records (worker.js) and the upload handler   *)
(* that starts it (index.js).                                              *)
(*                                                                         *)
(* One upload request = one worker thread.  A worker buffers the rows of   *)
(* its file, then resolves Agent, User, Account, Category, Carrier and     *)
(* Policy for each row with findOne / create calls against the shared      *)
(* MongoDB store.  Every await on the store is one atomic step of the      *)
(* model; the synchronous code that follows an await (counter increment,   *)
(* loop advance, postMessage, the catch chain) belongs to the same step.   *)
(***************************************************************************)
EXTENDS Integers, Sequences, FiniteSets, TLC

(* ---------------------------- bounds ---------------------------------- *)
\* number of upload requests (each starts its own worker)
NumUploads == 2
\* longest file, in data rows
MaxRows == 2
\* how many environment faults (store error, stream error, close error,
\* unreadable file) may be injected in one behaviour
MaxFaults == 1

\* how many rows workers that are inside their loop hold together: a file
\* is only read in while the rows of the running workers leave room for it
MaxLiveRows == 2

\* how many scheduled posts the store holds at most
MaxPosts == 2
\* the last instant of the clock
MaxTime == 3

Uploads == 1 .. NumUploads

(* ----------------------------- rows ----------------------------------- *)
\* A row as csv-parser yields it: a string-keyed field map.
Row(ag, fn, em, an, cn, co, pn, pt) ==
  [agent |-> ag, firstname |-> fn, email |-> em, account_name |-> an,
   category_name |-> cn, company_name |-> co, policy_number |-> pn,
   policy_type |-> pt]

\* The text of a field that is parsed: the sequence of its characters.  A
\* column the file lacks reads as undefined.
undefined == <<"undefined">>

\* The fields of a row that the loop body converts before it stores them.
Payload(dob, psd, ped, pa, paw, pm, pr, ha) ==
  [dob |-> dob, policy_start_date |-> psd, policy_end_date |-> ped,
   premium_amount |-> pa, premium_amount_written |-> paw,
   policy_mode |-> pm, primary |-> pr, hasActive |-> ha]

TDate == <<"2", "0", "2", "0", "-", "0", "1", "-", "0", "2">>
TTrue == <<"t", "r", "u", "e">>

\* R2 repeats R1's policy_number with another agent and policy_type;
\* R3 shares agent, account name and carrier with R1 but is another user,
\* category and policy.
R1 == Row("a1", "f1", "e1", "n1", "c1", "k1", "p1", "t1")
        @@ Payload(TDate, TDate, TDate, <<"1", "2">>, <<"1", ".", "5">>,
                   <<"1", "2">>, TTrue, TTrue)
R2 == Row("a2", "f1", "e1", "n1", "c1", "k1", "p1", "t2")
        @@ Payload(undefined, <<>>, TDate, <<>>, <<"a", "b", "c">>,
                   <<"a", "b", "c">>, <<"T", "R", "U", "E">>, undefined)
R3 == Row("a1", "f2", "e1", "n1", "c2", "k1", "p2", "t1")
        @@ Payload(TDate, TDate, undefined, <<"7">>, <<"1", "2">>, <<"3">>,
                   <<"1">>, TTrue)
Rows == {R1, R2, R3}

RECURSIVE SeqsUpTo(_, _)
SeqsUpTo(S, n) ==
  IF n = 0 THEN {<<>>}
  ELSE LET shorter == SeqsUpTo(S, n - 1)
       IN  shorter \cup {Append(f, r) : f \in shorter, r \in S}

Files == SeqsUpTo(Rows, MaxRows)

(* ----------------------------- store ---------------------------------- *)
\* JavaScript null; also the _id of "no document"
null == 0

Kinds == {"Agent", "User", "Account", "Category", "Carrier", "Policy"}

\* StatKey with the Carrier block copied from the Category block and its
\* counter left unchanged.
StatKey_CopyPaste(kind) ==
  CASE kind = "Agent"    -> "agents"
    [] kind = "User"     -> "users"
    [] kind = "Account"  -> "accounts"
    [] kind = "Category" -> "categories"
    [] kind = "Carrier"  -> "categories"
    [] kind = "Policy"   -> "policies"

\* The six stats keys, by model.
StatKey(kind) ==
  CASE kind = "Agent"    -> "agents"
    [] kind = "User"     -> "users"
    [] kind = "Account"  -> "accounts"
    [] kind = "Category" -> "categories"
    [] kind = "Carrier"  -> "carriers"
    [] kind = "Policy"   -> "policies"

\* The fields of a kind that carry a unique index in its schema.
UniqueField(kind) ==
  CASE kind = "Category" -> "name"
    [] kind = "Carrier"  -> "name"
    [] kind = "Policy"   -> "policy_number"
    [] OTHER             -> "none"

VARIABLES
  db,        \* db[kind]: the collection, documents in insertion order
  pc,        \* pc[u]: where upload u's request / worker stands
  results,   \* results[u]: the rows buffered from the file
  i,         \* i[u]: index of the row being processed
  k,         \* k[u]: which entity of the row is being resolved (1..6)
  cur,       \* cur[u]: agent, user, account, category, carrier of this row
  stats,     \* stats[u]: the six counters
  conn,      \* conn[u]: the worker's mongoose connection is open
  chan,      \* chan[u]: events from worker u not yet handled by the parent
  sent,      \* sent[u]: every message the worker posted, in order
  promise,   \* promise[u]: the promise processCSV returned
  res,       \* res[u]: the HTTP response of the upload request
  onDisk,    \* onDisk[u]: the uploaded file exists under uploads/
  before,    \* before[u]: history, the uploads whose worker had posted its
             \* stats when upload u was made
  faults,    \* environment faults injected so far
  posts,     \* the ScheduledPost collection, in insertion order
  now,       \* the clock
  run,       \* the delivery run in progress, if any
  req,       \* the scheduled post a request is saving, if any
  sres       \* the response to the last schedule-post request

\* the state of the ingestion and the state of the scheduled post service
ivars == <<db, pc, results, i, k, cur, stats, conn, chan, sent, promise, res,
           onDisk, before, faults>>
svars == <<posts, now, run, req, sres>>

vars == <<db, pc, results, i, k, cur, stats, conn, chan, sent, promise, res,
          onDisk, before, faults, posts, now, run, req, sres>>

(* ------------------------- row normalizer ----------------------------- *)
\* JavaScript values of the converted fields.  A number n is kept as 100 * n
\* (two decimals); a date as the number yyyymmdd.
Num(h)     == [t |-> "number", v |-> h]
NaN        == [t |-> "NaN"]
jsNull     == [t |-> "null"]
DateOf(d)  == [t |-> "date", v |-> d]
InvalidDate == [t |-> "InvalidDate"]

DigitValue ==
  ("0" :> 0) @@ ("1" :> 1) @@ ("2" :> 2) @@ ("3" :> 3) @@ ("4" :> 4) @@
  ("5" :> 5) @@ ("6" :> 6) @@ ("7" :> 7) @@ ("8" :> 8) @@ ("9" :> 9)

IsDigit(c) == c \in DOMAIN DigitValue

\* The text without its first n characters.
Drop(t, n) == SubSeq(t, n + 1, Len(t))

\* Leading white space is skipped by parseInt and parseFloat.
RECURSIVE TrimStart(_)
TrimStart(t) ==
  IF t # <<>> /\ t[1] = " " THEN TrimStart(Tail(t)) ELSE t

\* The longest prefix of t made of digits.
RECURSIVE DigitPrefix(_)
DigitPrefix(t) ==
  IF t # <<>> /\ IsDigit(t[1]) THEN <<t[1]>> \o DigitPrefix(Tail(t)) ELSE <<>>

\* The number a sequence of digits denotes.
RECURSIVE ValueOf(_)
ValueOf(ds) ==
  IF ds = <<>> THEN 0
  ELSE 10 * ValueOf(SubSeq(ds, 1, Len(ds) - 1)) + DigitValue[ds[Len(ds)]]

Sign(t) == IF t # <<>> /\ t[1] = "-" THEN -1 ELSE 1
Unsigned(t) == IF t # <<>> /\ t[1] \in {"-", "+"} THEN Tail(t) ELSE t

\* parseInt(text): white space, a sign, then the longest run of digits;
\* what follows the digits is ignored; NaN when there is no digit.
parseInt(text) ==
  LET t  == TrimStart(text)
      ds == DigitPrefix(Unsigned(t))
  IN  IF ds = <<>> THEN NaN ELSE Num(Sign(t) * ValueOf(ds) * 100)

\* parseFloat(text): white space, a sign, digits, then a point and digits;
\* what follows is ignored; NaN when there is no digit at all.
parseFloat(text) ==
  LET t    == TrimStart(text)
      ds   == DigitPrefix(Unsigned(t))
      rest == Drop(Unsigned(t), Len(ds))
      fs   == IF rest # <<>> /\ rest[1] = "."
              THEN DigitPrefix(Tail(rest)) ELSE <<>>
      f1   == IF Len(fs) >= 1 THEN DigitValue[fs[1]] ELSE 0
      f2   == IF Len(fs) >= 2 THEN DigitValue[fs[2]] ELSE 0
  IN  IF ds = <<>> /\ fs = <<>> THEN NaN
      ELSE Num(Sign(t) * (ValueOf(ds) * 100 + 10 * f1 + f2))

\* a || b
Falsy(a) == a.t \in {"NaN", "null"} \/ (a.t = "number" /\ a.v = 0)
Or(a, b) == IF Falsy(a) THEN b ELSE a

\* "text ? ... : ..." : undefined and the empty string are falsy.
Truthy(text) == text # undefined /\ text # <<>>

\* new Date(text) for a text of the form YYYY-MM-DD; any other text of the
\* rows used here gives an Invalid Date.
NewDate(text) ==
  IF /\ Len(text) = 10
     /\ text[5] = "-" /\ text[8] = "-"
     /\ \A n \in {1, 2, 3, 4, 6, 7, 9, 10} : IsDigit(text[n])
  THEN LET y == ValueOf(SubSeq(text, 1, 4))
           m == ValueOf(SubSeq(text, 6, 7))
           d == ValueOf(SubSeq(text, 9, 10))
       IN  IF m \in 1 .. 12 /\ d \in 1 .. 31
           THEN DateOf(10000 * y + 100 * m + d)
           ELSE InvalidDate
  ELSE InvalidDate

\* row.x ? new Date(row.x) : null
DateField(text) == IF Truthy(text) THEN NewDate(text) ELSE jsNull

\* The paths of a schema that are of type Date.
DatePaths(kind) ==
  CASE kind = "User"   -> {"dob"}
    [] kind = "Policy" -> {"policy_start_date", "policy_end_date"}
    [] OTHER           -> {}

\* mongoose casts the fields to the schema types when a document is
\* created: an Invalid Date cannot be cast to Date and the create rejects.
CastError(kind, fields) ==
  \E f \in DatePaths(kind) : fields[f].t = "InvalidDate"

(* ------------------------ store operations ---------------------------- *)
\* findOne that never finds a document.
findOne_Never(coll, query) == null

\* Model.findOne(query): the first document, in insertion order, whose
\* fields equal the query's; null when there is none.  Returns the _id.
findOne(coll, query) ==
  LET hits == {n \in 1 .. Len(coll) :
                 \A f \in DOMAIN query : coll[n][f] = query[f]}
  IN  IF hits = {} THEN null
      ELSE CHOOSE n \in hits : \A m \in hits : n <= m

\* A store whose unique indexes were not built.
DuplicateKey_NoIndex(kind, fields) == FALSE

\* The unique index of a kind rejects a document whose indexed field equals
\* that of a stored document (E11000 duplicate key).
DuplicateKey(kind, fields) ==
  /\ UniqueField(kind) # "none"
  /\ \E n \in 1 .. Len(db[kind]) :
       db[kind][n][UniqueField(kind)] = fields[UniqueField(kind)]

\* The document Model.create(fields) stores: the fields, a fresh _id (its
\* position in the collection) and, as history, the upload that wrote it.
NewDoc(kind, fields, u) ==
  fields @@ [_id |-> Len(db[kind]) + 1, by |-> u]

(* ------------------------ the resolver -------------------------------- *)
\* Order with the Carrier block moved before the Category block.
Order_CarrierBeforeCategory ==
  <<"Agent", "User", "Account", "Carrier", "Category", "Policy">>

\* The fixed order in which processFile resolves the entities of a row.
Order == <<"Agent", "User", "Account", "Category", "Carrier", "Policy">>

row(u) == results[u][i[u]]

\* Query with the Policy looked up by policy_type.
Query_PolicyByType(kind, r, c) ==
  CASE kind = "Agent"    -> [name |-> r.agent]
    [] kind = "User"     -> [firstname |-> r.firstname, email |-> r.email]
    [] kind = "Account"  -> [name |-> r.account_name, user_id |-> c.User]
    [] kind = "Category" -> [name |-> r.category_name]
    [] kind = "Carrier"  -> [name |-> r.company_name]
    [] kind = "Policy"   -> [policy_type |-> r.policy_type]

\* The query of each findOne of the loop body.
Query(kind, r, c) ==
  CASE kind = "Agent"    -> [name |-> r.agent]
    [] kind = "User"     -> [firstname |-> r.firstname, email |-> r.email]
    [] kind = "Account"  -> [name |-> r.account_name, user_id |-> c.User]
    [] kind = "Category" -> [name |-> r.category_name]
    [] kind = "Carrier"  -> [name |-> r.company_name]
    [] kind = "Policy"   -> [policy_number |-> r.policy_number]

\* Fields with the Account created without its user.
Fields_AccountWithoutUser(kind, r, c) ==
  CASE kind = "Agent"    -> [name |-> r.agent]
    [] kind = "User"     -> [firstname |-> r.firstname, email |-> r.email,
                             dob |-> DateField(r.dob)]
    [] kind = "Account"  -> [name |-> r.account_name, user_id |-> null]
    [] kind = "Category" -> [name |-> r.category_name]
    [] kind = "Carrier"  -> [name |-> r.company_name]
    [] kind = "Policy"   -> [policy_number |-> r.policy_number,
                             policy_start_date |->
                               DateField(r.policy_start_date),
                             policy_end_date |->
                               DateField(r.policy_end_date),
                             premium_amount |->
                               Or(parseFloat(r.premium_amount), Num(0)),
                             premium_amount_written |->
                               Or(parseFloat(r.premium_amount_written),
                                  Num(0)),
                             policy_type   |-> r.policy_type,
                             policy_mode   |->
                               Or(parseInt(r.policy_mode), jsNull),
                             primary       |-> r.primary = TTrue,
                             hasActive     |-> r.hasActive = TTrue,
                             user_id       |-> c.User,
                             account_id    |-> c.Account,
                             category_id   |-> c.Category,
                             carrier_id    |-> c.Carrier,
                             agent_id      |-> c.Agent]

\* The fields of each create of the loop body.
Fields(kind, r, c) ==
  CASE kind = "Agent"    -> [name |-> r.agent]
    [] kind = "User"     -> [firstname |-> r.firstname, email |-> r.email,
                             dob |-> DateField(r.dob)]
    [] kind = "Account"  -> [name |-> r.account_name, user_id |-> c.User]
    [] kind = "Category" -> [name |-> r.category_name]
    [] kind = "Carrier"  -> [name |-> r.company_name]
    [] kind = "Policy"   -> [policy_number |-> r.policy_number,
                             policy_start_date |->
                               DateField(r.policy_start_date),
                             policy_end_date |->
                               DateField(r.policy_end_date),
                             premium_amount |->
                               Or(parseFloat(r.premium_amount), Num(0)),
                             premium_amount_written |->
                               Or(parseFloat(r.premium_amount_written),
                                  Num(0)),
                             policy_type   |-> r.policy_type,
                             policy_mode   |->
                               Or(parseInt(r.policy_mode), jsNull),
                             primary       |-> r.primary = TTrue,
                             hasActive     |-> r.hasActive = TTrue,
                             user_id       |-> c.User,
                             account_id    |-> c.Account,
                             category_id   |-> c.Category,
                             carrier_id    |-> c.Carrier,
                             agent_id      |-> c.Agent]

NoRefs == [Agent |-> null, User |-> null, Account |-> null,
           Category |-> null, Carrier |-> null]

ZeroStats == [agents |-> 0, users |-> 0, accounts |-> 0, categories |-> 0,
              carriers |-> 0, policies |-> 0]

StatsMsg(s)  == [tag |-> "stats", stats |-> s]
ErrorMsg(m)  == [tag |-> "error", error |-> m]
Message(d)   == [ev |-> "message", data |-> d]
ErrorEvent   == [ev |-> "error"]
ExitEvent(c) == [ev |-> "exit", code |-> c]

\* parentPort.postMessage(d)
postMessage(u, d) ==
  /\ chan' = [chan EXCEPT ![u] = Append(@, Message(d))]
  /\ sent' = [sent EXCEPT ![u] = Append(@, d)]

\* The loop is left, by its end or by an exception: the row, the position in
\* it and the documents of the row go out of scope.
Leave(u) ==
  /\ i' = [i EXCEPT ![u] = 0]
  /\ k' = [k EXCEPT ![u] = 1]
  /\ cur' = [cur EXCEPT ![u] = NoRefs]

\* Throw whose catch chain posts the counters reached so far instead of the
\* error.
Throw_PostsStats(u, msg) ==
  /\ pc' = [pc EXCEPT ![u] = "failed"]
  /\ Leave(u)
  /\ postMessage(u, StatsMsg(stats[u]))

\* An exception inside the 'end' handler's try block, or a stream 'error':
\* reject(error), then processFile().catch posts { error: err.message }.
\* The worker stays alive with its connection open.
Throw(u, msg) ==
  /\ pc' = [pc EXCEPT ![u] = "failed"]
  /\ Leave(u)
  /\ postMessage(u, ErrorMsg(msg))

\* The end of the for loop: postMessage(stats), then the close is awaited.
Finish(u, s) ==
  /\ pc' = [pc EXCEPT ![u] = "closing"]
  /\ Leave(u)
  /\ postMessage(u, StatsMsg(s))

\* What follows the last store call of a row: the next row, or the end of
\* the loop.
NextRow(u, s) ==
  IF i[u] < Len(results[u])
  THEN /\ i' = [i EXCEPT ![u] = @ + 1]
       /\ k' = [k EXCEPT ![u] = 1]
       /\ cur' = [cur EXCEPT ![u] = NoRefs]
       /\ pc' = [pc EXCEPT ![u] = "find"]
       /\ UNCHANGED <<chan, sent>>
  ELSE Finish(u, s)

\* The entity of kind Order[k[u]] is resolved to document id: remember it
\* and go on to the next entity, or to the next row after the Policy.
Resolved(u, id, s) ==
  IF k[u] < Len(Order)
  THEN /\ cur' = [cur EXCEPT ![u][Order[k[u]]] = id]
       /\ k' = [k EXCEPT ![u] = @ + 1]
       /\ pc' = [pc EXCEPT ![u] = "find"]
       /\ UNCHANGED <<i, chan, sent>>
  ELSE NextRow(u, s)
(* --------------------------- Init ------------------------------------- *)
NoResponse == [status |-> 0]
NoRequest == [status |-> "none"]
Idle == [phase |-> "idle"]

Init ==
  /\ posts = <<>>
  /\ now = 0
  /\ run = Idle
  /\ req = NoRequest
  /\ sres = NoResponse
  /\ db = [kind \in Kinds |-> <<>>]
  /\ pc = [u \in Uploads |-> "idle"]
  /\ results = [u \in Uploads |-> <<>>]
  /\ i = [u \in Uploads |-> 0]
  /\ k = [u \in Uploads |-> 1]
  /\ cur = [u \in Uploads |-> NoRefs]
  /\ stats = [u \in Uploads |-> ZeroStats]
  /\ conn = [u \in Uploads |-> FALSE]
  /\ chan = [u \in Uploads |-> <<>>]
  /\ sent = [u \in Uploads |-> <<>>]
  /\ promise = [u \in Uploads |-> "none"]
  /\ res = [u \in Uploads |-> NoResponse]
  /\ onDisk = [u \in Uploads |-> FALSE]
  /\ before = [u \in Uploads |-> {}]
  /\ faults = 0

(* ---------------- POST /api/upload and processCSV --------------------- *)
\* A request without a file is answered 400; no worker is started.
UploadNoFile(u) ==
  /\ pc[u] = "idle"
  /\ pc' = [pc EXCEPT ![u] = "nofile"]
  /\ res' = [res EXCEPT ![u] = [status |-> 400, error |-> "No file uploaded"]]
  /\ UNCHANGED <<db, results, i, k, cur, stats, conn, chan, sent, promise,
                 onDisk, before, faults>>
  /\ UNCHANGED svars

\* multer has stored the file; processCSV starts the worker and returns a
\* pending promise.  The worker opens its own connection and starts to
\* stream the file.
Upload(u) ==
  /\ pc[u] = "idle"
  /\ onDisk' = [onDisk EXCEPT ![u] = TRUE]
  /\ promise' = [promise EXCEPT ![u] = "pending"]
  /\ conn' = [conn EXCEPT ![u] = TRUE]
  /\ pc' = [pc EXCEPT ![u] = "stream"]
  /\ before' = [before EXCEPT ![u] =
                  {v \in Uploads : sent[v] # <<>> /\ sent[v][1].tag = "stats"}]
  /\ UNCHANGED <<db, results, i, k, cur, stats, chan, sent, res, faults>>
  /\ UNCHANGED svars

\* The continuation of "await processCSV(...)" when the promise resolves
\* with value v: delete the file, answer 200 with stats: v.
HandlerSuccess(u, v) ==
  /\ onDisk' = [onDisk EXCEPT ![u] = FALSE]
  /\ res' = [res EXCEPT ![u] =
               [status |-> 200, message |-> "File processed successfully",
                stats |-> v]]

\* The catch block of the handler when the promise rejects: answer 500.
HandlerFailure(u, msg) ==
  /\ res' = [res EXCEPT ![u] = [status |-> 500, error |-> msg]]
  /\ UNCHANGED onDisk

\* OnMessage that settles the promise on a stats message only and drops a
\* message that carries an error.
OnMessage_StatsOnly(u) ==
  /\ chan[u] # <<>>
  /\ Head(chan[u]).ev = "message"
  /\ chan' = [chan EXCEPT ![u] = Tail(@)]
  /\ IF promise[u] = "pending" /\ Head(chan[u]).data.tag = "stats"
     THEN /\ promise' = [promise EXCEPT ![u] = "resolved"]
          /\ HandlerSuccess(u, Head(chan[u]).data)
     ELSE UNCHANGED <<promise, res, onDisk>>
  /\ UNCHANGED <<db, pc, results, i, k, cur, stats, conn, sent, before,
                 faults>>
  /\ UNCHANGED svars

\* worker.on('message', resolve)
OnMessage(u) ==
  /\ chan[u] # <<>>
  /\ Head(chan[u]).ev = "message"
  /\ chan' = [chan EXCEPT ![u] = Tail(@)]
  /\ IF promise[u] = "pending"
     THEN /\ promise' = [promise EXCEPT ![u] = "resolved"]
          /\ HandlerSuccess(u, Head(chan[u]).data)
     ELSE UNCHANGED <<promise, res, onDisk>>
  /\ UNCHANGED <<db, pc, results, i, k, cur, stats, conn, sent, before,
                 faults>>
  /\ UNCHANGED svars

\* worker.on('error', reject)
OnError(u) ==
  /\ chan[u] # <<>>
  /\ Head(chan[u]).ev = "error"
  /\ chan' = [chan EXCEPT ![u] = Tail(@)]
  /\ IF promise[u] = "pending"
     THEN /\ promise' = [promise EXCEPT ![u] = "rejected"]
          /\ HandlerFailure(u, "uncaught")
     ELSE UNCHANGED <<promise, res, onDisk>>
  /\ UNCHANGED <<db, pc, results, i, k, cur, stats, conn, sent, before,
                 faults>>
  /\ UNCHANGED svars

\* worker.on('exit', code => { if (code !== 0) reject(...) })
OnExit(u) ==
  /\ chan[u] # <<>>
  /\ Head(chan[u]).ev = "exit"
  /\ chan' = [chan EXCEPT ![u] = Tail(@)]
  /\ IF Head(chan[u]).code # 0 /\ promise[u] = "pending"
     THEN /\ promise' = [promise EXCEPT ![u] = "rejected"]
          /\ HandlerFailure(u, "Worker stopped with exit code")
     ELSE UNCHANGED <<promise, res, onDisk>>
  /\ UNCHANGED <<db, pc, results, i, k, cur, stats, conn, sent, before,
                 faults>>
  /\ UNCHANGED svars

(* ------------------------- processFile -------------------------------- *)
RECURSIVE SumLen(_)
SumLen(S) ==
  IF S = {} THEN 0
  ELSE LET u == CHOOSE v \in S : TRUE
       IN  Len(results[u]) + SumLen(S \ {u})

\* The rows held by the workers that are inside their loop.
LiveRows == SumLen({u \in Uploads : pc[u] \in {"find", "create"}})

\* 'end' of the csv stream, for a file of the set F: every row of the file
\* is in results; the loop starts with the first row, or ends at once on a
\* file without rows.
StreamEndFrom(u, F) ==
  /\ pc[u] = "stream"
  /\ \E f \in F :
       /\ Len(f) + LiveRows <= MaxLiveRows
       /\ results' = [results EXCEPT ![u] = f]
       /\ IF f = <<>>
          THEN Finish(u, stats[u])
          ELSE /\ i' = [i EXCEPT ![u] = 1]
               /\ k' = [k EXCEPT ![u] = 1]
               /\ pc' = [pc EXCEPT ![u] = "find"]
               /\ UNCHANGED <<cur, chan, sent>>
  /\ UNCHANGED <<db, stats, conn, promise, res, onDisk, before, faults>>
  /\ UNCHANGED svars

StreamEnd(u) == StreamEndFrom(u, Files)

\* Find that writes the row's policy_type into a Policy it finds (an
\* upsert instead of a skip).
Find_Upsert(u) ==
  /\ pc[u] = "find"
  /\ LET kind == Order[k[u]]
         id   == findOne(db[kind], Query(kind, row(u), cur[u]))
     IN  IF id # null
         THEN /\ Resolved(u, id, stats[u])
              /\ db' = IF kind = "Policy"
                       THEN [db EXCEPT !.Policy[id].policy_type =
                                          row(u).policy_type]
                       ELSE db
         ELSE /\ pc' = [pc EXCEPT ![u] = "create"]
              /\ UNCHANGED <<db, i, k, cur, chan, sent>>
  /\ UNCHANGED <<results, stats, conn, promise, res, onDisk, before, faults>>
  /\ UNCHANGED svars

\* await Model.findOne(...): a found document is used as it is; when there
\* is none the create follows.
Find(u) ==
  /\ pc[u] = "find"
  /\ LET kind == Order[k[u]]
         id   == findOne(db[kind], Query(kind, row(u), cur[u]))
     IN  IF id # null
         THEN Resolved(u, id, stats[u])
         ELSE /\ pc' = [pc EXCEPT ![u] = "create"]
              /\ UNCHANGED <<i, k, cur, chan, sent>>
  /\ UNCHANGED <<db, results, stats, conn, promise, res, onDisk, before,
                 faults>>
  /\ UNCHANGED svars

\* await Model.create(...), then the counter of the kind is incremented.
\* A validation error of the document and a duplicate key error of a
\* unique index are thrown like any other error.
Create(u) ==
  /\ pc[u] = "create"
  /\ LET kind   == Order[k[u]]
         fields == Fields(kind, row(u), cur[u])
         doc    == NewDoc(kind, fields, u)
         s      == [stats[u] EXCEPT ![StatKey(kind)] = @ + 1]
     IN  IF CastError(kind, fields)
         THEN /\ Throw(u, "Cast to date failed")
              /\ UNCHANGED <<db, stats>>
         ELSE IF DuplicateKey(kind, fields)
         THEN /\ Throw(u, "E11000 duplicate key")
              /\ UNCHANGED <<db, stats>>
         ELSE /\ db' = [db EXCEPT ![kind] = Append(@, doc)]
              /\ stats' = [stats EXCEPT ![u] = s]
              /\ Resolved(u, doc._id, s)
  /\ UNCHANGED <<results, conn, promise, res, onDisk, before, faults>>
  /\ UNCHANGED svars

\* await mongoose.connection.close() returns: the worker has nothing left
\* to do and its thread exits with code 0.
Close(u) ==
  /\ pc[u] = "closing"
  /\ conn' = [conn EXCEPT ![u] = FALSE]
  /\ pc' = [pc EXCEPT ![u] = "exited"]
  /\ chan' = [chan EXCEPT ![u] = Append(@, ExitEvent(0))]
  /\ UNCHANGED <<db, results, i, k, cur, stats, sent, promise, res, onDisk,
                 before, faults>>
  /\ UNCHANGED svars

(* ----------------------- environment faults --------------------------- *)
\* A findOne or create fails (store unreachable, write rejected).
StoreFault(u) ==
  /\ pc[u] \in {"find", "create"}
  /\ faults < MaxFaults
  /\ faults' = faults + 1
  /\ Throw(u, "store error")
  /\ UNCHANGED <<db, results, stats, conn, promise, res, onDisk, before>>
  /\ UNCHANGED svars

\* The csv parser emits 'error': the listener of line 196 rejects.
StreamError(u) ==
  /\ pc[u] = "stream"
  /\ faults < MaxFaults
  /\ faults' = faults + 1
  /\ Throw(u, "stream error")
  /\ UNCHANGED <<db, results, stats, conn, promise, res, onDisk, before>>
  /\ UNCHANGED svars

\* The file cannot be read: fs.createReadStream emits 'error', which has no
\* listener (the listeners are on the csv stream).  The exception is
\* uncaught: the parent gets 'error', then 'exit' with a non-zero code.
ReadError(u) ==
  /\ pc[u] = "stream"
  /\ faults < MaxFaults
  /\ faults' = faults + 1
  /\ pc' = [pc EXCEPT ![u] = "crashed"]
  /\ conn' = [conn EXCEPT ![u] = FALSE]
  /\ chan' = [chan EXCEPT ![u] = @ \o <<ErrorEvent, ExitEvent(1)>>]
  /\ UNCHANGED <<db, results, i, k, cur, stats, sent, promise, res, onDisk,
                 before>>
  /\ UNCHANGED svars

\* mongoose.connection.close() throws after the stats were posted: the
\* catch block rejects and the error is posted too.
CloseError(u) ==
  /\ pc[u] = "closing"
  /\ faults < MaxFaults
  /\ faults' = faults + 1
  /\ Throw(u, "close error")
  /\ UNCHANGED <<db, results, stats, conn, promise, res, onDisk, before>>
  /\ UNCHANGED svars

(* ------------------------ specification ------------------------------- *)
Next ==
  \E u \in Uploads :
    \/ UploadNoFile(u)
    \/ Upload(u)
    \/ OnMessage(u)
    \/ OnError(u)
    \/ OnExit(u)
    \/ StreamEnd(u)
    \/ Find(u)
    \/ Create(u)
    \/ Close(u)
    \/ StoreFault(u)
    \/ StreamError(u)
    \/ ReadError(u)
    \/ CloseError(u)

Spec == Init /\ [][Next]_vars

(* ---------------- one upload, under fairness ------------------------- *)
\* A single processCSV call, on any file, with the faults of the
\* environment.
LiveNext ==
  \/ UploadNoFile(1)
  \/ Upload(1)
  \/ OnMessage(1)
  \/ OnError(1)
  \/ OnExit(1)
  \/ StreamEnd(1)
  \/ Find(1)
  \/ Create(1)
  \/ Close(1)
  \/ StoreFault(1)
  \/ StreamError(1)
  \/ ReadError(1)
  \/ CloseError(1)

\* A step of the worker or of a listener of the parent: a store call or the
\* file stream returns, or an event that has arrived is handled.
Progress ==
  \/ StreamEnd(1)
  \/ Find(1)
  \/ Create(1)
  \/ Close(1)
  \/ OnMessage(1)
  \/ OnError(1)
  \/ OnExit(1)

\* Every store call and the file stream eventually return or fail, and the
\* event loop of the parent runs the listener of an event that has arrived:
\* while such a step is possible, one is eventually taken.  The faults of
\* the environment and the arrival of the request are under no fairness.
Fairness == WF_vars(Progress)

FairSpec == Init /\ [][LiveNext]_vars /\ Fairness

(* ---------------- one row, every text of the parsed fields ------------ *)
DateTexts == {undefined, <<>>, TDate, <<"a", "b", "c">>,
              <<"2", "0", "2", "0", "-", "1", "3", "-", "0", "1">>}
NumTexts  == {undefined, <<>>, <<"0">>, <<"1", "2">>, <<"1", ".", "5">>,
              <<"a", "b", "c">>, <<"1", "2", "a", "b", "c">>, <<"-", "3">>}
BoolTexts == {undefined, <<>>, TTrue, <<"T", "R", "U", "E">>,
              <<"T", "r", "u", "e">>, <<"1">>}

\* One-row files: the keys of R1, the three dates from one text, the three
\* numbers and the two booleans from a text each.
NormFiles ==
  {<<Row("a1", "f1", "e1", "n1", "c1", "k1", "p1", "t1")
       @@ Payload(d, d, d, pa, paw, pm, pr, ha)>> :
     d \in DateTexts, pa \in NumTexts,
     paw \in {<<>>, <<"1", "2">>, <<"a", "b", "c">>},
     pm \in NumTexts, pr \in BoolTexts, ha \in {TTrue, <<"1">>}}

\* A single upload of such a file against the empty store; no fault of the
\* environment.
NormNext ==
  \/ Upload(1)
  \/ StreamEndFrom(1, NormFiles)
  \/ Find(1)
  \/ Create(1)
  \/ Close(1)
  \/ OnMessage(1)
  \/ OnExit(1)

NormSpec == Init /\ [][NormNext]_vars

(* ------------------ scheduled posts (index.js) ------------------------ *)
\* The text of a request field: absent or empty, not a number, or the
\* numeral of n.
Empty == [t |-> "empty"]
Junk == [t |-> "junk"]
Numeral(n) == [t |-> "num", v |-> n]

\* The request bodies.  A day text stands for the instant its day starts
\* at, a time text for the time of day, in units of the clock.
Messages == {"", "hello"}
DayTexts == {Empty, Junk, Numeral(1), Numeral(3)}
TimeTexts == {Empty, Junk, Numeral(0), Numeral(1)}
Bodies == [message : Messages, day : DayTexts, time : TimeTexts]

\* Number(text) of each part, then new Date(year, month - 1, date, hours,
\* minutes): the instant of the day plus the time of day, or an Invalid
\* Date when a part is not a number.
scheduledDate(day, time) ==
  IF day.t = "num" /\ time.t = "num"
  THEN [valid |-> TRUE, at |-> day.v + time.v]
  ELSE [valid |-> FALSE]

\* POST /api/schedule-post up to its await: the body is validated and the
\* document is built (status and createdAt from the schema defaults); a
\* request that fails the validation is answered 400.
SchedulePost(body) ==
  /\ req = NoRequest
  /\ IF body.message = "" \/ body.day = Empty \/ body.time = Empty
     THEN /\ sres' = [status |-> 400,
                      error |-> "Message, day, and time are required fields"]
          /\ UNCHANGED req
     ELSE LET sd == scheduledDate(body.day, body.time)
          IN  IF ~sd.valid \/ sd.at <= now
              THEN /\ sres' = [status |-> 400,
                               error |-> "Invalid or past date/time"]
                   /\ UNCHANGED req
              ELSE /\ Len(posts) < MaxPosts
                   /\ req' = [message |-> body.message,
                              scheduledDate |-> sd.at,
                              status |-> "pending",
                              createdAt |-> now]
                   /\ sres' = NoResponse
  /\ UNCHANGED <<posts, now, run>>
  /\ UNCHANGED ivars

\* await scheduledPost.save() returns: the post is stored, the answer is 201.
SavePost ==
  /\ req # NoRequest
  /\ posts' = Append(posts, req @@ [_id |-> Len(posts) + 1])
  /\ req' = NoRequest
  /\ sres' = [status |-> 201, message |-> "Post scheduled successfully"]
  /\ UNCHANGED <<now, run>>
  /\ UNCHANGED ivars

\* await scheduledPost.save() rejects: nothing is stored, the answer is 500.
SavePostFails ==
  /\ req # NoRequest
  /\ req' = NoRequest
  /\ sres' = [status |-> 500, error |-> "save failed"]
  /\ UNCHANGED <<posts, now, run>>
  /\ UNCHANGED ivars

\* Time passes.
Tick ==
  /\ now < MaxTime
  /\ now' = now + 1
  /\ UNCHANGED <<posts, run, req, sres>>
  /\ UNCHANGED ivars

\* Due with the status left out of the filter.
Due_AnyStatus(post, t) == post.scheduledDate <= t

\* The filter of the delivery run: { scheduledDate: { $lte: now },
\* status: 'pending' }.
Due(post, t) == post.scheduledDate <= t /\ post.status = "pending"

\* ScheduledPost.find(filter): the _ids of the posts that are due at t, from
\* the n-th on, in store order.
RECURSIVE find(_, _)
find(n, t) ==
  IF n > Len(posts) THEN <<>>
  ELSE (IF Due(posts[n], t) THEN <<n>> ELSE <<>>) \o find(n + 1, t)

\* The for loop goes on to the next post of pendingPosts, or ends.
NextPost ==
  IF Tail(run.queue) = <<>> THEN Idle
  ELSE [phase |-> "deliver", queue |-> Tail(run.queue)]

\* The cron job calls deliverScheduledPosts while no earlier run is in
\* progress: the posts due now are found.  When the find rejects, or finds
\* nothing, the run is over.
deliverScheduledPosts ==
  /\ run = Idle
  /\ \/ run' = IF find(1, now) = <<>> THEN Idle
               ELSE [phase |-> "deliver", queue |-> find(1, now)]
     \/ run' = Idle
  /\ UNCHANGED <<posts, now, req, sres>>
  /\ UNCHANGED ivars

\* The body of the loop for the next post: it is delivered,
\* post.status = 'delivered' and the save is awaited.  When the save
\* rejects, nothing is stored and the catch block follows.
Deliver ==
  /\ run.phase = "deliver"
  /\ \/ /\ posts' = [posts EXCEPT ![Head(run.queue)].status = "delivered"]
        /\ run' = NextPost
     \/ /\ run' = [run EXCEPT !.phase = "markFailed"]
        /\ UNCHANGED posts
  /\ UNCHANGED <<now, req, sres>>
  /\ UNCHANGED ivars

\* The catch block of the loop body: post.status = 'failed' and the save is
\* awaited.  When this save rejects too, the outer catch ends the run.
MarkFailed ==
  /\ run.phase = "markFailed"
  /\ \/ /\ posts' = [posts EXCEPT ![Head(run.queue)].status = "failed"]
        /\ run' = NextPost
     \/ /\ run' = Idle
        /\ UNCHANGED posts
  /\ UNCHANGED <<now, req, sres>>
  /\ UNCHANGED ivars

SchedNext ==
  \/ \E body \in Bodies : SchedulePost(body)
  \/ SavePost
  \/ SavePostFails
  \/ Tick
  \/ deliverScheduledPosts
  \/ Deliver
  \/ MarkFailed

SchedSpec == Init /\ [][SchedNext]_vars
(* ======================== properties ================================== *)
Ids(kind) == 1 .. Len(db[kind])

\* The documents of a kind that upload u's worker created.
CreatedBy(u, kind) == {n \in Ids(kind) : db[kind][n].by = u}

\* The worker of upload u went through all its rows and posted its stats.
Succeeded(u) == sent[u] # <<>> /\ sent[u][1].tag = "stats"

\* Upload u's worker posted the error message msg.
PostedError(u, msg) ==
  \E n \in 1 .. Len(sent[u]) : sent[u][n].tag = "error" /\ sent[u][n].error = msg

\* No upload other than those of S was ever made.
OnlyUploads(S) == \A w \in Uploads \ S : pc[w] = "idle"

PolicyPresent(pn) == \E n \in Ids("Policy") : db.Policy[n].policy_number = pn

\* This step is a store call of upload u's worker that returned (it did not
\* fail by an injected fault).
StoreStep(u) ==
  /\ pc[u] \in {"find", "create"}
  /\ <<pc[u], i[u], k[u]>> # <<pc'[u], i'[u], k'[u]>>
  /\ faults' = faults

(* ---- C1 -------------------------------------------------------------- *)
\* C1: when upload v is made after upload u's worker has posted its stats,
\* both read the same file and no other upload was ever made, then v's
\* worker creates no document of any kind, its six counters stay 0, and
\* the stats it posts are all 0.
C1_Idempotent ==
  \A u \in Uploads : \A v \in Uploads \ {u} :
    (/\ u \in before[v]
     /\ pc[v] \notin {"idle", "stream"}
     /\ results[v] = results[u]
     /\ OnlyUploads({u, v}))
    => /\ stats[v] = ZeroStats
       /\ \A kind \in Kinds : CreatedBy(v, kind) = {}
       /\ \A n \in 1 .. Len(sent[v]) :
            sent[v][n].tag = "stats" => sent[v][n].stats = ZeroStats

C1_Witness ==
  \E u \in Uploads : \E v \in Uploads \ {u} :
    /\ u \in before[v]
    /\ results[v] = results[u]
    /\ Len(results[v]) = 2
    /\ results[v][1].policy_number # results[v][2].policy_number
    /\ OnlyUploads({u, v})
    /\ sent[u] = <<StatsMsg([agents |-> 1, users |-> 2, accounts |-> 2,
                             categories |-> 2, carriers |-> 1,
                             policies |-> 2])>>
    /\ sent[v] = <<StatsMsg(ZeroStats)>>

(* ---- C2 -------------------------------------------------------------- *)
\* C2: in every reachable state no two Policy documents have the same
\* policy_number, no two Category documents the same name and no two
\* Carrier documents the same name.
C2_Uniqueness ==
  /\ \A m, n \in Ids("Policy") :
       db.Policy[m].policy_number = db.Policy[n].policy_number => m = n
  /\ \A m, n \in Ids("Category") :
       db.Category[m].name = db.Category[n].name => m = n
  /\ \A m, n \in Ids("Carrier") :
       db.Carrier[m].name = db.Carrier[n].name => m = n

\* Two workers raced: both missed the document in their findOne, one create
\* was stored and the other was rejected by the unique index.
C2_Witness ==
  \E u \in Uploads : \E v \in Uploads \ {u} :
    /\ PostedError(v, "E11000 duplicate key")
    /\ CreatedBy(u, "Category") # {}
    /\ Len(db.Category) = 1

(* ---- C3 -------------------------------------------------------------- *)
\* The index of the first row of file f that has policy_number pn.
FirstRowWith(f, pn) ==
  CHOOSE m \in 1 .. Len(f) :
    /\ f[m].policy_number = pn
    /\ \A n \in 1 .. Len(f) : f[n].policy_number = pn => m <= n

\* C3: a batch that runs alone on a file with a repeated policy_number
\* never gets a duplicate key error, and once it has posted its stats:
\* stats.policies is the number of distinct policy numbers of the file, and
\* each number has exactly one Policy, created from its first row.
C3_DuplicateRowSkipped ==
  \A u \in Uploads :
    OnlyUploads({u}) =>
      /\ ~PostedError(u, "E11000 duplicate key")
      /\ Succeeded(u) =>
           LET f == results[u]
           IN  /\ sent[u][1].stats.policies =
                    Cardinality({f[n].policy_number : n \in 1 .. Len(f)})
               /\ \A n \in 1 .. Len(f) :
                    LET hits == {m \in Ids("Policy") :
                                   db.Policy[m].policy_number =
                                     f[n].policy_number}
                        first == f[FirstRowWith(f, f[n].policy_number)]
                    IN  /\ Cardinality(hits) = 1
                        /\ \A m \in hits :
                             /\ db.Policy[m].policy_type = first.policy_type
                             /\ db.Agent[db.Policy[m].agent_id].name =
                                  first.agent

C3_Witness ==
  \E u \in Uploads :
    /\ OnlyUploads({u})
    /\ Len(results[u]) = 2
    /\ results[u][1].policy_number = results[u][2].policy_number
    /\ results[u][1].policy_type # results[u][2].policy_type
    /\ Succeeded(u)
    /\ sent[u][1].stats.policies = 1
    /\ Len(db.Policy) = 1

(* ---- C4 -------------------------------------------------------------- *)
\* C4 as stated: while a worker processes a row whose policy_number is in
\* the store, none of its steps writes to the store.
C4_NoWriteAtAll ==
  [][\A u \in Uploads :
       (StoreStep(u) /\ PolicyPresent(row(u).policy_number)) => db' = db]_vars

\* C4 as amended: the Policy lookup of a row whose policy_number is in the
\* store ends the row: that step writes nothing, raises no error, and the
\* worker goes on to the next row or to the end of the loop; and no step
\* of a worker on such a row adds a Policy or changes a stored document.
C4_SkippedAtPolicyLookup ==
  [][\A u \in Uploads :
       (StoreStep(u) /\ PolicyPresent(row(u).policy_number)) =>
          /\ db'.Policy = db.Policy
          /\ \A kind \in Kinds : \A n \in Ids(kind) :
               n <= Len(db'[kind]) /\ db'[kind][n] = db[kind][n]
          /\ (pc[u] = "find" /\ k[u] = Len(Order)) =>
               /\ db' = db
               /\ stats' = stats
               /\ \/ pc'[u] = "find" /\ i'[u] = i[u] + 1 /\ k'[u] = 1
                  \/ /\ pc'[u] = "closing"
                     /\ sent'[u] = <<StatsMsg(stats[u])>>]_vars

\* The second row repeated the policy_number of the first: its agent was
\* created, its Policy was not.
C4_Witness ==
  \E u \in Uploads :
    /\ OnlyUploads({u})
    /\ Len(results[u]) = 2
    /\ results[u][1].policy_number = results[u][2].policy_number
    /\ results[u][1].agent # results[u][2].agent
    /\ Succeeded(u)
    /\ Len(db.Policy) = 1
    /\ Len(db.Agent) = 2
(* ---- C5 -------------------------------------------------------------- *)
\* Every reference of every Policy and Account is the _id of a stored
\* document, and a Policy's account belongs to the Policy's user.
RefsResolve ==
  /\ \A n \in Ids("Policy") :
       LET p == db.Policy[n]
       IN  /\ p.user_id \in Ids("User")
           /\ p.account_id \in Ids("Account")
           /\ p.category_id \in Ids("Category")
           /\ p.carrier_id \in Ids("Carrier")
           /\ p.agent_id \in Ids("Agent")
           /\ db.Account[p.account_id].user_id = p.user_id
  /\ \A n \in Ids("Account") : db.Account[n].user_id \in Ids("User")

\* The step that stores a Policy refers to documents that were in the store
\* before it and carry the keys of the row being processed; the step that
\* stores an Account refers to a User that was in the store before it.
RefsFromRow ==
  \A u \in Uploads :
    /\ (StoreStep(u) /\ Len(db'.Policy) > Len(db.Policy)) =>
         LET p == db'.Policy[Len(db'.Policy)]
             r == row(u)
         IN  /\ p.agent_id \in Ids("Agent")
             /\ db.Agent[p.agent_id].name = r.agent
             /\ p.user_id \in Ids("User")
             /\ db.User[p.user_id].firstname = r.firstname
             /\ db.User[p.user_id].email = r.email
             /\ p.account_id \in Ids("Account")
             /\ db.Account[p.account_id].name = r.account_name
             /\ p.category_id \in Ids("Category")
             /\ db.Category[p.category_id].name = r.category_name
             /\ p.carrier_id \in Ids("Carrier")
             /\ db.Carrier[p.carrier_id].name = r.company_name
    /\ (StoreStep(u) /\ Len(db'.Account) > Len(db.Account)) =>
         LET a == db'.Account[Len(db'.Account)]
         IN  /\ a.user_id \in Ids("User")
             /\ db.User[a.user_id].firstname = row(u).firstname
             /\ db.User[a.user_id].email = row(u).email

\* C5: in every reachable state each Policy holds non-null user, account,
\* category, carrier and agent references to stored documents, which are
\* the ones resolved from the row that created it, and each Account's user
\* reference is a User that was stored before the Account was created.
C5_ReferentialCompleteness == []RefsResolve /\ [][RefsFromRow]_vars

\* Two Policies exist whose rows named different users.
C5_Witness ==
  /\ Len(db.Policy) = 2
  /\ db.Policy[1].user_id # db.Policy[2].user_id
  /\ Len(db.Account) = 2

(* ---- C6 -------------------------------------------------------------- *)
\* C6: the stats a worker posts count, kind by kind, exactly the documents
\* that this worker created, whatever other workers wrote meanwhile.
C6_StatsAccurate ==
  \A u \in Uploads : \A n \in 1 .. Len(sent[u]) :
    sent[u][n].tag = "stats" =>
      \A kind \in Kinds :
        sent[u][n].stats[StatKey(kind)] = Cardinality(CreatedBy(u, kind))

\* Two workers ran at the same time on the same row; both posted stats, and
\* each created some of the documents the other one found.
C6_Witness ==
  \E u \in Uploads : \E v \in Uploads \ {u} :
    /\ u \notin before[v] /\ v \notin before[u]
    /\ Succeeded(u) /\ Succeeded(v)
    /\ results[u] = results[v] /\ Len(results[u]) = 1
    /\ sent[u][1].stats.categories = 1 /\ sent[u][1].stats.policies = 0
    /\ sent[v][1].stats.categories = 0 /\ sent[v][1].stats.policies = 1

(* ---- C7 -------------------------------------------------------------- *)
\* C7: when a store call fails while a row is processed, the request is
\* answered with an error (500), never with a 200 that carries stats.
C7_FailureReported ==
  \A u \in Uploads :
    (PostedError(u, "store error") /\ res[u].status # 0)
      => res[u].status = 500 /\ promise[u] = "rejected"

(* ---- C8 -------------------------------------------------------------- *)
\* C8: no batch fails because its create lost a race against the unique
\* index: no worker ever posts the duplicate key error.
C8_RaceTolerated ==
  \A u \in Uploads : ~PostedError(u, "E11000 duplicate key")

(* ---- C9 -------------------------------------------------------------- *)
\* C9: a worker never posts more than one message.
C9_SingleSignal == \A u \in Uploads : Len(sent[u]) <= 1

(* ---- C10 ------------------------------------------------------------- *)
\* C10: once the request of an upload that started a worker is answered,
\* the uploaded file is deleted.
C10_FileDeleted ==
  \A u \in Uploads : res[u].status \in {200, 500} => ~onDisk[u]
(* ---- C11 ------------------------------------------------------------- *)
\* C11: whatever the texts of the date, number and boolean fields of a row
\* are, no create of the row fails, and a date field whose text is missing
\* or is no date is stored as no value.
C11_ParseNeverAborts ==
  \A u \in Uploads :
    /\ \A n \in 1 .. Len(sent[u]) : sent[u][n].tag # "error"
    /\ \A n \in CreatedBy(u, "User") :
         results[u][1].dob \notin {TDate} => db.User[n].dob = jsNull

(* ---- C12 ------------------------------------------------------------- *)
\* The policy_mode the claim asks for, text by text: the integer of a
\* numeric text, no value for a missing or non-numeric one.
ExpectedMode(text) ==
  CASE text = <<"0">>           -> Num(0)
    [] text = <<"1", "2">>      -> Num(1200)
    [] text = <<"1", ".", "5">> -> Num(100)
    [] text = <<"-", "3">>      -> Num(-300)
    [] OTHER                    -> jsNull

\* C12: the stored policy_mode is the parsed integer when the text is
\* numeric, "0" included, and no value exactly when the text is missing or
\* not numeric.
C12_PolicyModeCoercion ==
  \A u \in Uploads : \A n \in CreatedBy(u, "Policy") :
    db.Policy[n].policy_mode = ExpectedMode(results[u][1].policy_mode)

(* ---- C13 ------------------------------------------------------------- *)
\* The premium the claim asks for, text by text: the decimal number the text
\* denotes, 0 for a missing, empty or non-numeric text.
ExpectedPremium(text) ==
  CASE text = <<"1", "2">>      -> Num(1200)
    [] text = <<"1", ".", "5">> -> Num(150)
    [] text = <<"-", "3">>      -> Num(-300)
    [] OTHER                    -> Num(0)

\* C13: of every created Policy, premium_amount and premium_amount_written
\* are the decimal number of their text, or 0 when the text is missing,
\* empty or not numeric; primary and hasActive are true exactly when their
\* text is "true".
C13_PremiumAndBooleans ==
  \A u \in Uploads : \A n \in CreatedBy(u, "Policy") :
    LET p == db.Policy[n]
        r == results[u][1]
    IN  /\ p.premium_amount = ExpectedPremium(r.premium_amount)
        /\ p.premium_amount_written =
             ExpectedPremium(r.premium_amount_written)
        /\ p.primary = (r.primary = <<"t", "r", "u", "e">>)
        /\ p.hasActive = (r.hasActive = <<"t", "r", "u", "e">>)

(* ---- C14 ------------------------------------------------------------- *)
\* The stream of upload u's file failed before its end: the csv parser
\* emitted 'error', or the file could not be read.
StreamFailed(u) == PostedError(u, "stream error") \/ pc[u] = "crashed"

\* C14: when the stream of a file fails before its end, no row of the file
\* is resolved and the batch writes nothing to the store, the worker posts
\* no stats, and the request is answered with a failure (500), never with
\* a 200.
C14_StreamErrorAborts ==
  \A u \in Uploads :
    StreamFailed(u) =>
      /\ results[u] = <<>>
      /\ \A kind \in Kinds : CreatedBy(u, kind) = {}
      /\ \A n \in 1 .. Len(sent[u]) : sent[u][n].tag # "stats"
      /\ res[u].status # 0 =>
           res[u].status = 500 /\ promise[u] = "rejected"

(* ---- C15 ------------------------------------------------------------- *)
\* The lookup key of a stored document: the fields the resolver queries.
LookupKey(kind, doc) ==
  CASE kind = "Agent"    -> <<doc.name>>
    [] kind = "User"     -> <<doc.firstname, doc.email>>
    [] kind = "Account"  -> <<doc.name, doc.user_id>>
    [] kind = "Category" -> <<doc.name>>
    [] kind = "Carrier"  -> <<doc.name>>
    [] kind = "Policy"   -> <<doc.policy_number>>

\* C15: in every reachable state, whatever the interleaving of the
\* batches, no kind has two documents with the same lookup key.
C15_LookupKeysUnique ==
  \A kind \in Kinds : \A m, n \in Ids(kind) :
    LookupKey(kind, db[kind][m]) = LookupKey(kind, db[kind][n]) => m = n

(* ---- C16 ------------------------------------------------------------- *)
\* The lookup key the row r gives for a kind, c being the documents already
\* resolved for the row.
RowKey(kind, r, c) ==
  CASE kind = "Agent"    -> <<r.agent>>
    [] kind = "User"     -> <<r.firstname, r.email>>
    [] kind = "Account"  -> <<r.account_name, c.User>>
    [] kind = "Category" -> <<r.category_name>>
    [] kind = "Carrier"  -> <<r.company_name>>
    [] kind = "Policy"   -> <<r.policy_number>>

\* What a store call of upload u's worker that returned may do when the
\* worker is at entity number k of row number i: kind is the k-th of Agent,
\* User, Account, Category, Carrier, Policy.  A lookup writes nothing; it
\* either misses, and the create of the same entity of the same row
\* follows, or it finds a document with the row's key.  A create appends
\* one document of that kind with the row's key, or is rejected and ends
\* the batch.  After a found or created entity comes the next entity of the
\* same row; after the Policy comes the first entity of the next row of the
\* file, or the end of the batch after the last row.
InOrder(u) ==
  LET kind == <<"Agent", "User", "Account", "Category", "Carrier",
                "Policy">>[k[u]]
      key  == RowKey(kind, row(u), cur[u])
      last == Len(db'[kind])
      advance ==
        IF k[u] < 6
        THEN /\ pc'[u] = "find" /\ i'[u] = i[u] /\ k'[u] = k[u] + 1
             /\ cur'[u][kind] \in 1 .. last
             /\ LookupKey(kind, db'[kind][cur'[u][kind]]) = key
             /\ \A other \in DOMAIN cur[u] \ {kind} :
                  cur'[u][other] = cur[u][other]
        ELSE IF i[u] < Len(results[u])
        THEN pc'[u] = "find" /\ i'[u] = i[u] + 1 /\ k'[u] = 1
        ELSE pc'[u] = "closing"
  IN  /\ results'[u] = results[u]
      /\ pc[u] = "find" =>
           /\ db' = db
           /\ \/ /\ pc'[u] = "create" /\ i'[u] = i[u] /\ k'[u] = k[u]
                 /\ cur'[u] = cur[u]
                 /\ \A n \in Ids(kind) : LookupKey(kind, db[kind][n]) # key
              \/ /\ advance
                 /\ \E n \in Ids(kind) : LookupKey(kind, db[kind][n]) = key
      /\ pc[u] = "create" =>
           \/ /\ last = Len(db[kind]) + 1
              /\ db' = [db EXCEPT ![kind] = Append(@, db'[kind][last])]
              /\ db'[kind][last].by = u
              /\ LookupKey(kind, db'[kind][last]) = key
              /\ k[u] < 6 => cur'[u][kind] = last
              /\ advance
           \/ db' = db /\ pc'[u] = "failed"

\* No batch creates two documents of a kind with the same lookup key.
NeverRecreated ==
  \A u \in Uploads : \A kind \in Kinds : \A m, n \in CreatedBy(u, kind) :
    LookupKey(kind, db[kind][m]) = LookupKey(kind, db[kind][n]) => m = n

\* C16: a worker processes its rows one after the other in file order, and
\* within a row resolves Agent, User, Account, Category, Carrier, Policy in
\* this order, each store call returning before the next one is made; so a
\* document that an earlier row of the batch created is found, not created
\* again, by a later row.
C16_OrderedWithinBatch ==
  /\ [][\A u \in Uploads : StoreStep(u) => InOrder(u)]_vars
  /\ []NeverRecreated

\* The second row shared agent, account name and carrier with the first, and
\* had another user: the batch created one Agent and one Carrier, two
\* Users and two Accounts.
C16_Witness ==
  \E u \in Uploads :
    /\ Len(results[u]) = 2
    /\ results[u][1].agent = results[u][2].agent
    /\ results[u][1].firstname # results[u][2].firstname
    /\ sent[u] = <<StatsMsg([agents |-> 1, users |-> 2, accounts |-> 2,
                             categories |-> 2, carriers |-> 1,
                             policies |-> 2])>>
    /\ Cardinality(CreatedBy(u, "Agent")) = 1
    /\ Cardinality(CreatedBy(u, "Account")) = 2

(* ---- C17 ------------------------------------------------------------- *)
\* The step in which a store call of upload u's worker fails.
StoreFailure(u) == pc[u] \in {"find", "create"} /\ pc'[u] = "failed"

\* C17: the step in which a store call of a batch fails leaves the store
\* as it is (what the batch wrote before stays) and ends the worker's run
\* with the error as its only message, no stats; from then on the worker
\* makes no store call: its position never moves again and the set of
\* documents it created never changes.
C17_PartialFailure ==
  [][\A u \in Uploads :
       /\ StoreFailure(u) =>
            /\ db' = db
            /\ sent[u] = <<>>
            /\ Len(sent'[u]) = 1 /\ sent'[u][1].tag = "error"
       /\ pc[u] = "failed" =>
            /\ pc'[u] = "failed"
            /\ <<i'[u], k'[u], stats'[u], sent'[u]>> =
                 <<i[u], k[u], stats[u], sent[u]>>
            /\ \A kind \in Kinds : \A n \in 1 .. Len(db'[kind]) :
                 db'[kind][n].by = u =>
                   n \in Ids(kind) /\ db[kind][n] = db'[kind][n]]_vars

\* A store call failed at the second row after the row's Agent had been
\* created: the first row's Policy and both Agents are in the store, and
\* another batch has run to its end since.
C17_Witness ==
  \E u \in Uploads : \E v \in Uploads \ {u} :
    /\ pc[u] = "failed"
    /\ sent[u] = <<ErrorMsg("store error")>>
    /\ Len(results[u]) = 2
    /\ Cardinality(CreatedBy(u, "Policy")) = 1
    /\ Cardinality(CreatedBy(u, "Agent")) = 2
    /\ Succeeded(v) /\ results[v] # <<>>

(* ---- C18 ------------------------------------------------------------- *)
\* C18: every step keeps every stored document, at its place and with all
\* its fields: the collections only grow at their end.
C18_MonotonicCreation ==
  [][\A kind \in Kinds :
       /\ Len(db'[kind]) >= Len(db[kind])
       /\ \A n \in Ids(kind) : db'[kind][n] = db[kind][n]]_vars

\* A later batch brought a row with the policy_number and the user of a
\* stored Policy but another policy_type and no dob: the Policy and the
\* User are as the first batch wrote them.
C18_Witness ==
  \E u \in Uploads : \E v \in Uploads \ {u} :
    /\ u \in before[v]
    /\ Len(results[u]) = 1 /\ Len(results[v]) = 1
    /\ results[v][1].policy_number = results[u][1].policy_number
    /\ results[v][1].policy_type # results[u][1].policy_type
    /\ results[v][1].dob = undefined
    /\ Succeeded(v)
    /\ Len(db.Policy) = 1
    /\ db.Policy[1].policy_type = results[u][1].policy_type
    /\ db.User[1].dob = DateOf(20200102)

(* ---- C19 ------------------------------------------------------------- *)
PostIds == 1 .. Len(posts)

\* This step is the loop body of the delivery run acting on post p.
DeliveryOf(p) ==
  run.phase = "deliver" /\ Head(run.queue) = p /\ run' # run

\* Every stored post has one of the three statuses and was scheduled for
\* an instant after the one at which its request was handled.
PostsWellFormed ==
  \A p \in PostIds :
    /\ posts[p].status \in {"pending", "delivered", "failed"}
    /\ posts[p].scheduledDate > posts[p].createdAt

\* What a step may do to the posts.
PostStep ==
  /\ Len(posts') >= Len(posts)
  /\ Len(posts') > Len(posts) =>
       /\ Len(posts') = Len(posts) + 1
       /\ posts'[Len(posts')].status = "pending"
       /\ posts'[Len(posts')].scheduledDate > posts'[Len(posts')].createdAt
       /\ posts'[Len(posts')].createdAt <= now
  /\ \A p \in PostIds :
       /\ DeliveryOf(p) =>
            posts[p].status = "pending" /\ posts[p].scheduledDate <= now
       /\ posts'[p] # posts[p] =>
            /\ DeliveryOf(p) \/ (run.phase = "markFailed" /\ Head(run.queue) = p)
            /\ posts[p].status = "pending"
            /\ posts[p].scheduledDate <= now
            /\ \E st \in {"delivered", "failed"} :
                 posts'[p] = [posts[p] EXCEPT !.status = st]
       /\ posts[p].status \in {"delivered", "failed"} =>
            posts'[p] = posts[p] /\ ~DeliveryOf(p)

\* C19: a post enters the store with status pending and a scheduled time
\* after the instant its request was checked at; a delivery run, no other
\* run being in progress, acts on a post only while the post is pending
\* and its scheduled time is not after now; a status changes only from
\* pending to delivered or from pending to failed, by the run acting on
\* that post; a delivered or failed post is never changed and never
\* delivered again.
C19_PostStatusMachine == []PostsWellFormed /\ [][PostStep]_vars

\* One post was delivered by an earlier run and is long due; the run in
\* progress found only the other post.
C19_Witness ==
  /\ Len(posts) = 2
  /\ posts[1].status = "delivered"
  /\ posts[1].scheduledDate < now
  /\ posts[2].scheduledDate > posts[1].scheduledDate
  /\ run = [phase |-> "markFailed", queue |-> <<2>>]

(* ---- C20 ------------------------------------------------------------- *)
\* The worker of upload u has ended its run, in one of the four ways, and
\* the parent has handled every event it sent.
WorkerOver(u) ==
  /\ pc[u] \in {"closing", "exited", "failed", "crashed"}
  /\ chan[u] = <<>>

\* C20: the promise of every processCSV call is eventually resolved or
\* rejected, and it is settled whenever the worker has ended (by its stats,
\* by an error message, by an uncaught error or by its exit) and its events
\* are handled.
C20_EventuallySettles ==
  /\ \A u \in Uploads :
       (promise[u] = "pending") ~> (promise[u] \in {"resolved", "rejected"})
  /\ [](\A u \in Uploads :
          WorkerOver(u) => promise[u] \in {"resolved", "rejected"})

\* The worker of a file without rows posted its stats, then failed to close
\* its connection and posted the error; both messages are handled and the
\* call is settled.
C20_Witness ==
  \E u \in Uploads :
    /\ pc[u] = "failed" /\ chan[u] = <<>>
    /\ sent[u] = <<StatsMsg(ZeroStats), ErrorMsg("close error")>>
    /\ promise[u] = "resolved"

(* ---- C21 ------------------------------------------------------------- *)
\* C21: on every path, once a worker has posted its completion message,
\* stats or error, it eventually closes its connection to the store.
C21_WorkerTeardown ==
  \A u \in Uploads : (sent[u] # <<>>) ~> (conn[u] = FALSE)
====
